---- MODULE Spec2Model ----
(***************************************************************************)
(* Model of the two route handlers of FinOpenPOS:                          *)
(*   src/src/app/api/orders/route.ts   (GET, POST)                         *)
(*   src/src/app/api/products/route.ts (GET, POST)                         *)
(* The relational store is four tables (sequences of rows, in insertion    *)
(* order).  A handler is a process that advances from one awaited call to  *)
(* the next, so that requests interleave at every await.  A store call     *)
(* either takes effect or reports an error ({error} in its result); a      *)
(* compensating delete of POST /orders may also raise.                     *)
(***************************************************************************)
EXTENDS Integers, Sequences, FiniteSets, TLC

\* Number of requests of one behaviour.
MaxRequests == 2

\* Handler invocations that can be in flight at the same time.
Procs == {"p1", "p2"}

\* Identities the identity resolver can return; NoUser is "no user".
Users == {"u1", "u2"}
NoUser == "none"

(***************************************************************************)
(* JSON / JavaScript values of a request body.  A value is a record        *)
(*   t : its type tag, n : the integer part of a number,                   *)
(*   f : TRUE for a number with a fractional part, s : a string's text.    *)
(* NaN has its own tag.                                                    *)
(***************************************************************************)
Undef == [t |-> "undefined", n |-> 0, f |-> FALSE, s |-> ""]
Null == [t |-> "null", n |-> 0, f |-> FALSE, s |-> ""]
NaN == [t |-> "NaN", n |-> 0, f |-> FALSE, s |-> ""]
Num(n) == [t |-> "number", n |-> n, f |-> FALSE, s |-> ""]
Frac(n) == [t |-> "number", n |-> n, f |-> TRUE, s |-> ""]
Str(s) == [t |-> "string", n |-> 0, f |-> FALSE, s |-> s]

\* Number(string) for the strings the model's bodies use; any other text is NaN.
StringToNumber(s) ==
    CASE s = "" -> Num(0)
      [] s = "0" -> Num(0)
      [] s = "1" -> Num(1)
      [] s = "2" -> Num(2)
      [] s = "7" -> Num(7)
      [] s = "-1" -> Num(-1)
      [] s = "1.5" -> Frac(1)
      [] OTHER -> NaN

\* JavaScript Number(v), which z.coerce.number() applies to its input.
ToNumber(v) ==
    CASE v.t = "number" -> v
      [] v.t = "string" -> StringToNumber(v.s)
      [] v.t = "null" -> Num(0)
      [] OTHER -> NaN

\* JavaScript truthiness, as `if (x)` and `x ? a : b` test it.
Truthy(v) ==
    CASE v.t = "number" -> v.n # 0 \/ v.f
      [] v.t = "string" -> v.s # ""
      [] OTHER -> FALSE

\* z.coerce.number(): the coerced value must be a number other than NaN.
CoerceNumberOk(v) == ToNumber(v).t = "number"

\* z.coerce.number().int(): and an integer.
CoerceIntOk(v) == CoerceNumberOk(v) /\ ~ToNumber(v).f

\* z.coerce.number().optional(): undefined passes through uncoerced.
OptionalNumberOk(v) == v.t = "undefined" \/ CoerceNumberOk(v)
OptionalNumber(v) == IF v.t = "undefined" THEN Undef ELSE ToNumber(v)

\* z.string().optional()
OptionalStringOk(v) == v.t \in {"undefined", "string"}

\* z.string().optional().nullable()
NullableStringOk(v) == v.t \in {"undefined", "null", "string"}

\* z.enum(['completed', 'pending', 'cancelled']).optional()
StatusValues == {"completed", "pending", "cancelled"}
OptionalStatusOk(v) == v.t = "undefined" \/ (v.t = "string" /\ v.s \in StatusValues)

\* One entry of products: {id, quantity, price}.
ProductEntryOk(e) ==
    CoerceNumberOk(e.id) /\ CoerceIntOk(e.quantity) /\ CoerceNumberOk(e.price)
ProductEntry(e) ==
    [id |-> ToNumber(e.id), quantity |-> ToNumber(e.quantity), price |-> ToNumber(e.price)]

\* z.array(...).optional().default([]): a body's products is
\* [given |-> FALSE, items |-> <<>>] when the key is absent.
ProductsOk(ps) == \A i \in 1..Len(ps.items) : ProductEntryOk(ps.items[i])
ParseProducts(ps) ==
    IF ps.given THEN [i \in 1..Len(ps.items) |-> ProductEntry(ps.items[i])] ELSE <<>>

\* orderSchema.safeParse(body).success
OrderSchemaOk(b) ==
    /\ CoerceNumberOk(b.customerId)
    /\ OptionalNumberOk(b.paymentMethodId)
    /\ CoerceNumberOk(b.total)
    /\ OptionalStatusOk(b.status)
    /\ OptionalStringOk(b.created_at)
    /\ ProductsOk(b.products)

\* orderSchema.safeParse(body).data
OrderSchemaData(b) ==
    [customerId |-> ToNumber(b.customerId),
     paymentMethodId |-> OptionalNumber(b.paymentMethodId),
     total |-> ToNumber(b.total),
     status |-> b.status,
     created_at |-> b.created_at,
     products |-> ParseProducts(b.products)]

\* productSchema.safeParse(body).success
ProductSchemaOk(b) ==
    /\ b.name.t = "string"
    /\ NullableStringOk(b.description)
    /\ CoerceNumberOk(b.price)
    /\ CoerceIntOk(b.in_stock)
    /\ NullableStringOk(b.category)

\* productSchema.safeParse(body).data
ProductSchemaData(b) ==
    [name |-> b.name,
     description |-> b.description,
     price |-> ToNumber(b.price),
     in_stock |-> ToNumber(b.in_stock),
     category |-> b.category]

\* parsed.error.flatten().fieldErrors: the top-level keys that failed.
OrderFieldErrors(b) ==
    (IF CoerceNumberOk(b.customerId) THEN {} ELSE {"customerId"})
    \cup (IF OptionalNumberOk(b.paymentMethodId) THEN {} ELSE {"paymentMethodId"})
    \cup (IF CoerceNumberOk(b.total) THEN {} ELSE {"total"})
    \cup (IF OptionalStatusOk(b.status) THEN {} ELSE {"status"})
    \cup (IF OptionalStringOk(b.created_at) THEN {} ELSE {"created_at"})
    \cup (IF ProductsOk(b.products) THEN {} ELSE {"products"})

ProductFieldErrors(b) ==
    (IF b.name.t = "string" THEN {} ELSE {"name"})
    \cup (IF NullableStringOk(b.description) THEN {} ELSE {"description"})
    \cup (IF CoerceNumberOk(b.price) THEN {} ELSE {"price"})
    \cup (IF CoerceIntOk(b.in_stock) THEN {} ELSE {"in_stock"})
    \cup (IF NullableStringOk(b.category) THEN {} ELSE {"category"})

(***************************************************************************)
(* Request bodies the model submits.                                       *)
(***************************************************************************)
Given(items) == [given |-> TRUE, items |-> items]
Absent == [given |-> FALSE, items |-> <<>>]

Entry1 == [id |-> Num(1), quantity |-> Num(2), price |-> Num(7)]
\* An entry given as strings, with a negative quantity.
Entry2 == [id |-> Str("2"), quantity |-> Str("-1"), price |-> Frac(1)]

\* user_uid is a key the schema does not declare.
BaseOrder ==
    [customerId |-> Num(1), paymentMethodId |-> Undef, total |-> Num(7),
     status |-> Undef, created_at |-> Undef, products |-> Absent, user_uid |-> Undef]

OrderBodies ==
    { \* products, no payment method
      [BaseOrder EXCEPT !.products = Given(<<Entry1>>)],
      \* two equal entries, a payment method, a status, another user's id
      [BaseOrder EXCEPT !.products = Given(<<Entry1, Entry1>>),
                        !.paymentMethodId = Num(2), !.status = Str("pending"),
                        !.user_uid = Str("u2")],
      \* no products, a payment method given as a string, a timestamp
      [BaseOrder EXCEPT !.paymentMethodId = Str("2"), !.customerId = Str("2"),
                        !.created_at = Str("2024-01-01")],
      \* payment method 0, an empty timestamp
      [BaseOrder EXCEPT !.paymentMethodId = Num(0), !.created_at = Str("")],
      \* products, no payment method, a status
      [BaseOrder EXCEPT !.products = Given(<<Entry2>>), !.status = Str("cancelled")],
      \* total is not a number, and a quantity is not an integer
      [BaseOrder EXCEPT !.total = Str("abc"),
                        !.products = Given(<<[Entry1 EXCEPT !.quantity = Frac(1)]>>)] }

BaseProduct ==
    [name |-> Str("tea"), description |-> Undef, price |-> Str("7"),
     in_stock |-> Num(2), category |-> Null, user_uid |-> Str("u2")]

ProductBodies ==
    { BaseProduct,
      [BaseProduct EXCEPT !.in_stock = Str("1.5"), !.name = Undef] }

NoRequest == [handler |-> "none", obody |-> BaseOrder, pbody |-> BaseProduct]

Requests ==
    { [handler |-> "GET /orders", obody |-> BaseOrder, pbody |-> BaseProduct],
      [handler |-> "GET /products", obody |-> BaseOrder, pbody |-> BaseProduct] }
    \cup { [handler |-> "POST /orders", obody |-> b, pbody |-> BaseProduct] : b \in OrderBodies }
    \cup { [handler |-> "POST /products", obody |-> BaseOrder, pbody |-> b] : b \in ProductBodies }

(***************************************************************************)
(* The store.                                                              *)
(***************************************************************************)
\* The customers table, which these handlers only read through the join.
CustomerName(cid) == IF cid = Num(1) THEN Str("Alice") ELSE Null

\* created_at's column default.
StoreNow == "now()"

\* The message of a failed store call.
Message(op, table, result) == op \o " " \o table \o ": " \o result

\* Mutant of InsertRow: an insert that is dropped when the table already holds a
\* row with the same columns (the store-assigned id aside).
InsertRowDeduplicated(table, row) ==
    LET payload(r) == [c \in DOMAIN r \ {"id"} |-> r[c]] IN
    IF \E i \in 1..Len(table) : payload(table[i]) = payload(row)
      THEN table
      ELSE Append(table, row)

\* .insert(row): the table with the row added.
InsertRow(table, row) == Append(table, row)

\* .insert(rows)
InsertRows(table, rows) == table \o rows

\* Mutant of DeleteEq: the filter is .lte(col, val) instead of .eq(col, val).
DeleteLte(table, col, val) == SelectSeq(table, LAMBDA r : r[col] > val)

\* Mutant of DeleteEq: the delete without its .eq filter.
DeleteEqUnfiltered(table, col, val) == <<>>

\* .delete().eq(col, val)
DeleteEq(table, col, val) == SelectSeq(table, LAMBDA r : r[col] # val)

\* Mutant of SelectEq: the select without its .eq filter.
SelectEqUnfiltered(table, col, val) == table

\* .select(...).eq(col, val)
SelectEq(table, col, val) == SelectSeq(table, LAMBDA r : r[col] = val)

\* customer:customer_id ( name ) / customer:customers(name)
WithCustomer(row) ==
    [id |-> row.id, customer_id |-> row.customer_id, total_amount |-> row.total_amount,
     user_uid |-> row.user_uid, status |-> row.status, created_at |-> row.created_at,
     customer |-> CustomerName(row.customer_id)]

JoinCustomers(rows) == [i \in 1..Len(rows) |-> WithCustomer(rows[i])]

VARIABLES
    orders, order_items, transactions, products,  \* the tables
    nextOrderId, nextProductId,                   \* the tables' id sequences
    pc,         \* pc[p]: the await a handler is at
    req,        \* req[p]: the request it serves
    user,       \* user[p]: what supabase.auth.getUser() returned
    bodyRead,   \* bodyRead[p]: request.json() was called
    orderData,  \* orderData[p]: the inserted order, as POST /orders selected it
    calls,      \* calls[p]: the store calls the handler issued, with their results
    response,   \* response[p]: the NextResponse it returned
    started,    \* the number of requests that have arrived
    placed      \* placed[id]: the products array of the request that inserted order id

store == <<orders, order_items, transactions, products, nextOrderId, nextProductId>>
locals == <<pc, req, user, bodyRead, orderData, calls, response>>
vars == <<store, locals, started, placed>>

NoResponse == [status |-> 0, error |-> "", details |-> {}, kind |-> "none", rows |-> <<>>]
NoOrder == WithCustomer([id |-> 0, customer_id |-> Null, total_amount |-> Null,
                         user_uid |-> NoUser, status |-> "", created_at |-> ""])

ErrorResponse(code, msg) ==
    [status |-> code, error |-> msg, details |-> {}, kind |-> "error", rows |-> <<>>]
InvalidResponse(fields) ==
    [status |-> 400, error |-> "Invalid request", details |-> fields, kind |-> "error",
     rows |-> <<>>]
ObjectResponse(row) ==
    [status |-> 200, error |-> "", details |-> {}, kind |-> "object", rows |-> <<row>>]
ArrayResponse(rows) ==
    [status |-> 200, error |-> "", details |-> {}, kind |-> "array", rows |-> rows]

Call(op, table, result) == [op |-> op, table |-> table, result |-> result]

Init ==
    /\ orders = <<>> /\ order_items = <<>> /\ transactions = <<>> /\ products = <<>>
    /\ nextOrderId = 1 /\ nextProductId = 1
    /\ pc = [p \in Procs |-> "idle"]
    /\ req = [p \in Procs |-> NoRequest]
    /\ user = [p \in Procs |-> NoUser]
    /\ bodyRead = [p \in Procs |-> FALSE]
    /\ orderData = [p \in Procs |-> NoOrder]
    /\ calls = [p \in Procs |-> <<>>]
    /\ response = [p \in Procs |-> NoResponse]
    /\ started = 0
    /\ placed = <<>>

(***************************************************************************)
(* Locals of a POST /orders handler, as the code computes them.            *)
(***************************************************************************)
\* const { customerId, paymentMethodId, products, total, status, created_at } = parsed.data
parsedData(p) == OrderSchemaData(req[p].obody)

\* Mutant of OrderInsert: the payload's status is not passed on.
OrderInsertStatusIgnored(d, uid, id) ==
    [id |-> id,
     customer_id |-> d.customerId,
     total_amount |-> d.total,
     user_uid |-> uid,
     status |-> "completed",
     created_at |-> IF Truthy(d.created_at) THEN d.created_at.s ELSE StoreNow]

\* The row .insert({...}) hands to the orders table; the store assigns id.
OrderInsert(d, uid, id) ==
    [id |-> id,
     customer_id |-> d.customerId,
     total_amount |-> d.total,
     user_uid |-> uid,
     status |-> IF d.status.t = "undefined" THEN "completed" ELSE d.status.s,
     created_at |-> IF Truthy(d.created_at) THEN d.created_at.s ELSE StoreNow]

\* const orderItems = products.map(...)
OrderItems(d, orderId) ==
    [i \in 1..Len(d.products) |->
        [order_id |-> orderId,
         product_id |-> d.products[i].id,
         quantity |-> d.products[i].quantity,
         price |-> d.products[i].price]]

orderItems(p) == OrderItems(parsedData(p), orderData[p].id)

\* if (paymentMethodId)
WantsTransaction(d) == Truthy(d.paymentMethodId)

\* The row .insert({...}) hands to the transactions table.
TransactionInsert(d, uid, orderId) ==
    [order_id |-> orderId,
     payment_method_id |-> d.paymentMethodId,
     amount |-> d.total,
     user_uid |-> uid,
     status |-> "completed",
     category |-> "selling",
     type |-> "income",
     description |-> "Payment for order #" \o ToString(orderId)]

\* Mutant of ProductInsert: `user_uid: user.id` is missing from the inserted row.
ProductInsertNoOwner(d, uid, id) ==
    [id |-> id, name |-> d.name, description |-> d.description, price |-> d.price,
     in_stock |-> d.in_stock, category |-> d.category, user_uid |-> NoUser]

\* The row POST /products inserts: { ...newProduct, user_uid: user.id }.
ProductInsert(d, uid, id) ==
    [id |-> id, name |-> d.name, description |-> d.description, price |-> d.price,
     in_stock |-> d.in_stock, category |-> d.category, user_uid |-> uid]

\* The result of an awaited store call whose { error } the handler reads: the
\* call took effect, or nothing changed and error is set.
Outcomes == {"ok", "error"}

\* A compensating delete is awaited without reading its result; inside the try
\* block its failure can also surface as an exception, which the catch receives.
DeleteOutcomes == {"ok", "error", "throw"}

\* The handler returns r.
Return(p, r) ==
    /\ response' = [response EXCEPT ![p] = r]
    /\ pc' = [pc EXCEPT ![p] = "done"]

Goto(p, label) ==
    /\ pc' = [pc EXCEPT ![p] = label]
    /\ UNCHANGED response

Issued(p, op, table, result) ==
    calls' = [calls EXCEPT ![p] = Append(@, Call(op, table, result))]

\* catch (error) { return NextResponse.json({ error: error.message }, { status: 500 }) }
Catch(p, msg) == Return(p, ErrorResponse(500, msg))

(***************************************************************************)
(* A request arrives and a free process (one that has served no request    *)
(* yet, or has returned its response) starts the handler on it.            *)
(***************************************************************************)
Begin(p) ==
    /\ pc[p] \in {"idle", "done"}
    /\ started < MaxRequests
    /\ \E r \in Requests : req' = [req EXCEPT ![p] = r]
    /\ started' = started + 1
    /\ pc' = [pc EXCEPT ![p] = "getUser"]
    /\ user' = [user EXCEPT ![p] = NoUser]
    /\ bodyRead' = [bodyRead EXCEPT ![p] = FALSE]
    /\ orderData' = [orderData EXCEPT ![p] = NoOrder]
    /\ calls' = [calls EXCEPT ![p] = <<>>]
    /\ response' = [response EXCEPT ![p] = NoResponse]
    /\ UNCHANGED <<store, placed>>

\* Mutant of GetUser: the `if (!user)` return is missing.
GetUserUnchecked(p) ==
    /\ pc[p] = "getUser"
    /\ \E u \in Users \cup {NoUser} :
        /\ user' = [user EXCEPT ![p] = u]
        /\ Goto(p, CASE req[p].handler = "GET /orders" -> "selectOrders"
                     [] req[p].handler = "GET /products" -> "selectProducts"
                     [] OTHER -> "parse")
    /\ UNCHANGED <<store, req, bodyRead, orderData, calls, started, placed>>

\* const { data: { user } } = await supabase.auth.getUser(); if (!user) return 401
GetUser(p) ==
    /\ pc[p] = "getUser"
    /\ \E u \in Users \cup {NoUser} :
        /\ user' = [user EXCEPT ![p] = u]
        /\ IF u = NoUser
             THEN Return(p, ErrorResponse(401, "Unauthorized"))
             ELSE Goto(p, CASE req[p].handler = "GET /orders" -> "selectOrders"
                            [] req[p].handler = "GET /products" -> "selectProducts"
                            [] OTHER -> "parse")
    /\ UNCHANGED <<store, req, bodyRead, orderData, calls, started, placed>>

\* Mutant of Parse: the `if (!parsed.success)` return is missing.
ParseUnchecked(p) ==
    /\ pc[p] = "parse"
    /\ bodyRead' = [bodyRead EXCEPT ![p] = TRUE]
    /\ Goto(p, IF req[p].handler = "POST /orders" THEN "insertOrder" ELSE "insertProduct")
    /\ UNCHANGED <<store, req, user, orderData, calls, started, placed>>

\* const body = await request.json(); const parsed = schema.safeParse(body);
\* if (!parsed.success) return 400
Parse(p) ==
    /\ pc[p] = "parse"
    /\ bodyRead' = [bodyRead EXCEPT ![p] = TRUE]
    /\ IF req[p].handler = "POST /orders"
         THEN IF OrderSchemaOk(req[p].obody)
                THEN Goto(p, "insertOrder")
                ELSE Return(p, InvalidResponse(OrderFieldErrors(req[p].obody)))
         ELSE IF ProductSchemaOk(req[p].pbody)
                THEN Goto(p, "insertProduct")
                ELSE Return(p, InvalidResponse(ProductFieldErrors(req[p].pbody)))
    /\ UNCHANGED <<store, req, user, orderData, calls, started, placed>>

(***************************************************************************)
(* POST /orders, the try block: one action per awaited store call.         *)
(***************************************************************************)
\* Lines 102-126 once the order items are settled: the transaction step, or
\* return NextResponse.json(orderData).
AfterItems(p, data) ==
    IF WantsTransaction(parsedData(p))
      THEN Goto(p, "insertTransaction")
      ELSE Return(p, ObjectResponse(data))

\* Mutant of InsertOrder: an order error runs the compensation of the items step
\* instead of `throw orderError`.
InsertOrderErrorCompensated(p) ==
    /\ pc[p] = "insertOrder"
    /\ \E result \in Outcomes :
        /\ Issued(p, "insert", "orders", result)
        /\ IF result = "ok"
             THEN LET row == OrderInsert(parsedData(p), user[p], nextOrderId) IN
                  /\ orders' = InsertRow(orders, row)
                  /\ nextOrderId' = nextOrderId + 1
                  /\ orderData' = [orderData EXCEPT ![p] = WithCustomer(row)]
                  /\ placed' = Append(placed, parsedData(p).products)
                  /\ IF Len(parsedData(p).products) > 0
                       THEN Goto(p, "insertItems")
                       ELSE AfterItems(p, WithCustomer(row))
             ELSE /\ Goto(p, "undoOrder")
                  /\ UNCHANGED <<orders, nextOrderId, orderData, placed>>
    /\ UNCHANGED <<order_items, transactions, products, nextOrderId, nextProductId,
                   req, user, bodyRead, started>>

\* await supabase.from('orders').insert({...}).select('*, customer:customers(name)').single()
InsertOrder(p) ==
    /\ pc[p] = "insertOrder"
    /\ \E result \in Outcomes :
        /\ Issued(p, "insert", "orders", result)
        /\ IF result = "ok"
             THEN LET row == OrderInsert(parsedData(p), user[p], nextOrderId) IN
                  /\ orders' = InsertRow(orders, row)
                  /\ nextOrderId' = nextOrderId + 1
                  /\ orderData' = [orderData EXCEPT ![p] = WithCustomer(row)]
                  /\ placed' = Append(placed, parsedData(p).products)
                  /\ IF Len(parsedData(p).products) > 0
                       THEN Goto(p, "insertItems")
                       ELSE AfterItems(p, WithCustomer(row))
             ELSE /\ Catch(p, Message("insert", "orders", result))
                  /\ UNCHANGED <<orders, nextOrderId, orderData, placed>>
    /\ UNCHANGED <<order_items, transactions, products, nextProductId,
                   req, user, bodyRead, started>>

\* Mutant of InsertItems: the `if (itemsError)` block is missing.
InsertItemsErrorIgnored(p) ==
    /\ pc[p] = "insertItems"
    /\ \E result \in Outcomes :
        /\ Issued(p, "insert", "order_items", result)
        /\ order_items' = IF result = "ok"
                            THEN InsertRows(order_items, orderItems(p))
                            ELSE order_items
        /\ AfterItems(p, orderData[p])
    /\ UNCHANGED <<orders, transactions, products, nextOrderId, nextProductId,
                   req, user, bodyRead, orderData, started, placed>>

\* await supabase.from('order_items').insert(orderItems)
InsertItems(p) ==
    /\ pc[p] = "insertItems"
    /\ \E result \in Outcomes :
        /\ Issued(p, "insert", "order_items", result)
        /\ IF result = "ok"
             THEN /\ order_items' = InsertRows(order_items, orderItems(p))
                  /\ AfterItems(p, orderData[p])
             ELSE /\ Goto(p, "undoOrder")
                  /\ UNCHANGED order_items
    /\ UNCHANGED <<orders, transactions, products, nextOrderId, nextProductId,
                   req, user, bodyRead, orderData, started, placed>>

\* Mutant of UndoOrder: a compensating delete that fails is issued again.
UndoOrderRetried(p) ==
    /\ pc[p] = "undoOrder"
    /\ \E result \in DeleteOutcomes :
        /\ Issued(p, "delete", "orders", result)
        /\ orders' = IF result = "ok" THEN DeleteEq(orders, "id", orderData[p].id) ELSE orders
        /\ IF result = "ok"
             THEN Catch(p, Message("insert", "order_items", "error"))
             ELSE Goto(p, "undoOrder")
    /\ UNCHANGED <<order_items, transactions, products, nextOrderId, nextProductId,
                   req, user, bodyRead, orderData, started, placed>>

\* if (itemsError) { await supabase.from('orders').delete().eq('id', orderData.id);
\*                   throw itemsError }
UndoOrder(p) ==
    /\ pc[p] = "undoOrder"
    /\ \E result \in DeleteOutcomes :
        /\ Issued(p, "delete", "orders", result)
        /\ orders' = IF result = "ok" THEN DeleteEq(orders, "id", orderData[p].id) ELSE orders
        /\ IF result = "throw"
             THEN Catch(p, Message("delete", "orders", result))
             ELSE Catch(p, Message("insert", "order_items", "error"))
    /\ UNCHANGED <<order_items, transactions, products, nextOrderId, nextProductId,
                   req, user, bodyRead, orderData, started, placed>>

\* await supabase.from('transactions').insert({...})
InsertTransaction(p) ==
    /\ pc[p] = "insertTransaction"
    /\ \E result \in Outcomes :
        /\ Issued(p, "insert", "transactions", result)
        /\ IF result = "ok"
             THEN /\ transactions' = InsertRow(transactions,
                        TransactionInsert(parsedData(p), user[p], orderData[p].id))
                  /\ Return(p, ObjectResponse(orderData[p]))
             ELSE /\ Goto(p, "undoOrderOfTransaction")
                  /\ UNCHANGED transactions
    /\ UNCHANGED <<orders, order_items, products, nextOrderId, nextProductId,
                   req, user, bodyRead, orderData, started, placed>>

\* if (transactionError) { await supabase.from('orders').delete().eq('id', orderData.id);
UndoOrderOfTransaction(p) ==
    /\ pc[p] = "undoOrderOfTransaction"
    /\ \E result \in DeleteOutcomes :
        /\ Issued(p, "delete", "orders", result)
        /\ orders' = IF result = "ok" THEN DeleteEq(orders, "id", orderData[p].id) ELSE orders
        /\ CASE result = "throw" -> Catch(p, Message("delete", "orders", result))
             [] result # "throw" /\ Len(orderItems(p)) > 0 -> Goto(p, "undoItemsOfTransaction")
             [] OTHER -> Catch(p, Message("insert", "transactions", "error"))
    /\ UNCHANGED <<order_items, transactions, products, nextOrderId, nextProductId,
                   req, user, bodyRead, orderData, started, placed>>

\*   if (orderItems.length > 0) {
\*     await supabase.from('order_items').delete().eq('order_id', orderData.id) }
\*   throw transactionError }
UndoItemsOfTransaction(p) ==
    /\ pc[p] = "undoItemsOfTransaction"
    /\ \E result \in DeleteOutcomes :
        /\ Issued(p, "delete", "order_items", result)
        /\ order_items' = IF result = "ok"
                            THEN DeleteEq(order_items, "order_id", orderData[p].id)
                            ELSE order_items
        /\ IF result = "throw"
             THEN Catch(p, Message("delete", "order_items", result))
             ELSE Catch(p, Message("insert", "transactions", "error"))
    /\ UNCHANGED <<orders, transactions, products, nextOrderId, nextProductId,
                   req, user, bodyRead, orderData, started, placed>>

(***************************************************************************)
(* GET /orders, GET /products, POST /products.                             *)
(***************************************************************************)
\* Request q is a POST /orders between its orders insert and its response, its
\* Order row not yet touched by compensation.
InFlight(q) ==
    /\ req[q].handler = "POST /orders"
    /\ pc[q] \in {"insertItems", "insertTransaction", "undoOrder", "undoOrderOfTransaction"}

\* Mutant of SelectOrders: the read is isolated from requests in flight and
\* returns only the orders of requests that have responded.
SelectOrdersSettledOnly(p) ==
    /\ pc[p] = "selectOrders"
    /\ \E result \in Outcomes :
        /\ Issued(p, "select", "orders", result)
        /\ IF result = "ok"
             THEN Return(p, ArrayResponse(JoinCustomers(
                     SelectSeq(SelectEq(orders, "user_uid", user[p]),
                               LAMBDA r : \A q \in Procs :
                                              InFlight(q) => r.id # orderData[q].id))))
             ELSE Return(p, ErrorResponse(500, Message("select", "orders", result)))
    /\ UNCHANGED <<store, req, user, bodyRead, orderData, started, placed>>

\* await supabase.from('orders').select(`..., customer:customer_id (name)`).eq('user_uid', user.id)
SelectOrders(p) ==
    /\ pc[p] = "selectOrders"
    /\ \E result \in Outcomes :
        /\ Issued(p, "select", "orders", result)
        /\ IF result = "ok"
             THEN Return(p, ArrayResponse(JoinCustomers(SelectEq(orders, "user_uid", user[p]))))
             ELSE Return(p, ErrorResponse(500, Message("select", "orders", result)))
    /\ UNCHANGED <<store, req, user, bodyRead, orderData, started, placed>>

\* await supabase.from('products').select('*').eq('user_uid', user.id)
SelectProducts(p) ==
    /\ pc[p] = "selectProducts"
    /\ \E result \in Outcomes :
        /\ Issued(p, "select", "products", result)
        /\ IF result = "ok"
             THEN Return(p, ArrayResponse(SelectEq(products, "user_uid", user[p])))
             ELSE Return(p, ErrorResponse(500, Message("select", "products", result)))
    /\ UNCHANGED <<store, req, user, bodyRead, orderData, started, placed>>

\* Mutant of InsertProduct: the row is { user_uid: user.id, ...body }, so a
\* user_uid in the payload overrides the caller's.
InsertProductPayloadOwner(p) ==
    /\ pc[p] = "insertProduct"
    /\ \E result \in Outcomes :
        /\ Issued(p, "insert", "products", result)
        /\ IF result = "ok"
             THEN LET owner == IF req[p].pbody.user_uid.t = "string"
                                 THEN req[p].pbody.user_uid.s ELSE user[p]
                      row == ProductInsert(ProductSchemaData(req[p].pbody), owner,
                                           nextProductId) IN
                  /\ products' = InsertRow(products, row)
                  /\ nextProductId' = nextProductId + 1
                  /\ Return(p, ObjectResponse(row))
             ELSE /\ Return(p, ErrorResponse(500, Message("insert", "products", result)))
                  /\ UNCHANGED <<products, nextProductId>>
    /\ UNCHANGED <<orders, order_items, transactions, nextOrderId,
                   req, user, bodyRead, orderData, started, placed>>

\* await supabase.from('products').insert([{ ...newProduct, user_uid: user.id }]).select()
InsertProduct(p) ==
    /\ pc[p] = "insertProduct"
    /\ \E result \in Outcomes :
        /\ Issued(p, "insert", "products", result)
        /\ IF result = "ok"
             THEN LET row == ProductInsert(ProductSchemaData(req[p].pbody), user[p],
                                           nextProductId) IN
                  /\ products' = InsertRow(products, row)
                  /\ nextProductId' = nextProductId + 1
                  /\ Return(p, ObjectResponse(row))
             ELSE /\ Return(p, ErrorResponse(500, Message("insert", "products", result)))
                  /\ UNCHANGED <<products, nextProductId>>
    /\ UNCHANGED <<orders, order_items, transactions, nextOrderId,
                   req, user, bodyRead, orderData, started, placed>>

Next ==
    \E p \in Procs :
        \/ Begin(p)
        \/ GetUser(p)
        \/ Parse(p)
        \/ InsertOrder(p)
        \/ InsertItems(p)
        \/ UndoOrder(p)
        \/ InsertTransaction(p)
        \/ UndoOrderOfTransaction(p)
        \/ UndoItemsOfTransaction(p)
        \/ SelectOrders(p)
        \/ SelectProducts(p)
        \/ InsertProduct(p)

Spec == Init /\ [][Next]_vars

\* One step of the handler serving the request of process p: the identity call
\* or the store call it awaits returns and the handler runs to its next await.
HandlerStep(p) ==
    \/ GetUser(p)
    \/ Parse(p)
    \/ InsertOrder(p)
    \/ InsertItems(p)
    \/ UndoOrder(p)
    \/ InsertTransaction(p)
    \/ UndoOrderOfTransaction(p)
    \/ UndoItemsOfTransaction(p)
    \/ SelectOrders(p)
    \/ SelectProducts(p)
    \/ InsertProduct(p)

\* The requests that arrive in the behaviours checked for termination.
MaxFairRequests == 1

FairBegin(p) == started < MaxFairRequests /\ Begin(p)

FairNext == \E p \in Procs : FairBegin(p) \/ HandlerStep(p)

\* Every identity call and every store call eventually returns: a handler
\* that awaits one takes its next step.
FairSpec == Init /\ [][FairNext]_vars /\ \A p \in Procs : WF_vars(HandlerStep(p))

(***************************************************************************)
(* Vocabulary of the properties.                                           *)
(***************************************************************************)
Returned(p) == pc[p] = "done"
IsOrderPost(p) == req[p].handler = "POST /orders"

\* The handler issued this call and the store answered it so.
Did(p, op, table, result) ==
    \E i \in 1..Len(calls[p]) : calls[p][i] = Call(op, table, result)

\* The handler issued this call, whatever the answer.
Attempted(p, op, table) ==
    \E i \in 1..Len(calls[p]) : calls[p][i].op = op /\ calls[p][i].table = table

\* Every store call the handler issued succeeded.
NoCallFailed(p) == \A i \in 1..Len(calls[p]) : calls[p][i].result = "ok"

OrderPresent(id) == \E i \in 1..Len(orders) : orders[i].id = id
ItemsOf(id) == SelectEq(order_items, "order_id", id)
TransactionsOf(id) == SelectEq(transactions, "order_id", id)

\* C1: POST /orders whose Transaction insert reported an error has, once it
\* has returned, left neither its Order row nor any OrderItem row of that order
\* in the store, and has answered 500.
C1_TransactionFailureLeavesNothing ==
    \A p \in Procs :
        (Returned(p) /\ IsOrderPost(p) /\ Did(p, "insert", "transactions", "error"))
        => /\ response[p].status = 500
           /\ ~OrderPresent(orderData[p].id)
           /\ ItemsOf(orderData[p].id) = <<>>

\* C2: POST /orders whose OrderItem insert reported an error has, once it has
\* returned, removed its Order row (the same user's GET /orders would not list
\* it), has attempted no Transaction insert, and has answered 500.
C2_ItemFailureRemovesOrder ==
    \A p \in Procs :
        (Returned(p) /\ IsOrderPost(p) /\ Did(p, "insert", "order_items", "error"))
        => /\ response[p].status = 500
           /\ ~Attempted(p, "insert", "transactions")
           /\ ~OrderPresent(orderData[p].id)
           /\ \A i \in 1..Len(SelectEq(orders, "user_uid", user[p])) :
                 SelectEq(orders, "user_uid", user[p])[i].id # orderData[p].id

\* C3: in every state, also between the store calls of a request in flight and
\* of its compensation, every OrderItem row references an Order row that is in
\* the store.
C3_NoOrderItemWithoutOrder ==
    \A i \in 1..Len(order_items) : OrderPresent(order_items[i].order_id)

\* C4: in every state, every Transaction row references an Order row that is
\* in the store, and the store holds exactly the OrderItem rows of that order,
\* one per entry of the products array of the request that placed it.
C4_TransactionImpliesOrderAndItems ==
    \A i \in 1..Len(transactions) :
        LET id == transactions[i].order_id IN
        /\ OrderPresent(id)
        /\ Len(ItemsOf(id)) = Len(placed[id])
        /\ \A k \in 1..Len(placed[id]) :
              /\ ItemsOf(id)[k].product_id = placed[id][k].id
              /\ ItemsOf(id)[k].quantity = placed[id][k].quantity
              /\ ItemsOf(id)[k].price = placed[id][k].price

\* C4's case: a Transaction with order items is in the store while another
\* request has failed and run a compensating delete.
C4_Witness ==
    /\ \E i \in 1..Len(transactions) : Len(placed[transactions[i].order_id]) > 0
    /\ \E p \in Procs : Did(p, "delete", "orders", "ok")

\* The Transaction row the specification describes for order id of request p.
ExpectedTransaction(p, id) ==
    [order_id |-> id,
     payment_method_id |-> parsedData(p).paymentMethodId,
     amount |-> parsedData(p).total,
     user_uid |-> user[p],
     status |-> "completed",
     category |-> "selling",
     type |-> "income",
     description |-> "Payment for order #" \o ToString(id)]

\* C5: POST /orders with a valid payload and no failing store call persists
\* exactly one Transaction row for the new order when paymentMethodId is
\* supplied, whatever number it validates to (amount = total, user_uid = caller,
\* status completed, category selling, type income, description naming the
\* order id), and none when paymentMethodId is not supplied.
C5_OneTransactionWhenPaymentMethodSupplied ==
    \A p \in Procs :
        (Returned(p) /\ IsOrderPost(p) /\ response[p].status = 200 /\ NoCallFailed(p))
        => LET id == orderData[p].id IN
           IF parsedData(p).paymentMethodId.t # "undefined"
             THEN TransactionsOf(id) = <<ExpectedTransaction(p, id)>>
             ELSE TransactionsOf(id) = <<>>

\* The case of C6: a valid payload with products and no paymentMethodId, served
\* without a failing store call.
ProductsOnlyOrder(p) ==
    /\ Returned(p) /\ IsOrderPost(p) /\ user[p] # NoUser
    /\ OrderSchemaOk(req[p].obody)
    /\ Len(parsedData(p).products) > 0
    /\ req[p].obody.paymentMethodId.t = "undefined"
    /\ NoCallFailed(p)

\* C6: POST /orders with a valid payload with non-empty products and no
\* paymentMethodId, when no store call fails, persists exactly one Order row and
\* one OrderItem row per products entry (referencing the new order, with the
\* entry's product id, quantity and price), and answers 200 with the inserted
\* Order, whose status is the payload's when given and 'completed' otherwise.
C6_ProductsOnlyOrderPersisted ==
    \A p \in Procs :
        ProductsOnlyOrder(p)
        => LET id == orderData[p].id
               d == parsedData(p)
               rows == SelectEq(orders, "id", id) IN
           /\ response[p].status = 200
           /\ response[p].kind = "object"
           /\ Len(response[p].rows) = 1
           /\ Len(rows) = 1
           /\ response[p].rows[1] = WithCustomer(rows[1])
           /\ rows[1].user_uid = user[p]
           /\ rows[1].customer_id = d.customerId
           /\ rows[1].total_amount = d.total
           /\ rows[1].status = IF req[p].obody.status.t = "undefined"
                                 THEN "completed" ELSE req[p].obody.status.s
           /\ Len(ItemsOf(id)) = Len(d.products)
           /\ \A k \in 1..Len(d.products) :
                 ItemsOf(id)[k] = [order_id |-> id, product_id |-> d.products[k].id,
                                   quantity |-> d.products[k].quantity,
                                   price |-> d.products[k].price]

\* C6's case, with the status given and with the status omitted.
C6_Witness ==
    /\ \E p \in Procs : ProductsOnlyOrder(p) /\ req[p].obody.status.t = "undefined"
    /\ \E p \in Procs : ProductsOnlyOrder(p) /\ req[p].obody.status.t = "string"

IsPost(p) == req[p].handler \in {"POST /orders", "POST /products"}

\* The body of request p passes its handler's schema.
BodyValid(p) ==
    IF IsOrderPost(p) THEN OrderSchemaOk(req[p].obody) ELSE ProductSchemaOk(req[p].pbody)

\* Request p has returned because the identity resolver found no user.
Unauthorized(p) == Returned(p) /\ user[p] = NoUser

\* C7: in each handler, when the identity resolver returns no user the
\* response is 401 {error: 'Unauthorized'}, the payload is neither read nor
\* validated, no store operation is issued, and the store is unchanged.
C7_UnauthorizedTouchesNothing ==
    /\ [](\A p \in Procs :
            Unauthorized(p)
            => /\ response[p] = ErrorResponse(401, "Unauthorized")
               /\ ~bodyRead[p]
               /\ calls[p] = <<>>)
    /\ [][\A p \in Procs :
            (pc[p] = "getUser" /\ pc'[p] # "getUser" /\ user'[p] = NoUser)
            => (pc'[p] = "done" /\ UNCHANGED store)]_vars

\* C7's case: an unauthenticated POST /orders has returned while the store
\* holds an order.
C7_Witness ==
    \E p \in Procs : Unauthorized(p) /\ IsOrderPost(p) /\ Len(orders) > 0

\* An authenticated POST whose body failed validation has returned.
Rejected(p) == Returned(p) /\ IsPost(p) /\ user[p] # NoUser /\ ~BodyValid(p)

\* C8: an authenticated POST /orders or POST /products whose body fails schema
\* validation answers 400 'Invalid request', issues no store operation and
\* leaves the store unchanged; a POST issues a store call only for a body that
\* passed validation.
C8_InvalidBodyNeverReachesStore ==
    /\ [](\A p \in Procs :
            /\ Rejected(p)
               => /\ response[p].status = 400
                  /\ response[p].error = "Invalid request"
                  /\ calls[p] = <<>>
            /\ (IsPost(p) /\ calls[p] # <<>>) => BodyValid(p))
    /\ [][\A p \in Procs :
            (pc[p] = "parse" /\ pc'[p] # "parse" /\ ~BodyValid(p))
            => (pc'[p] = "done" /\ UNCHANGED store)]_vars

\* C8's case: both POST handlers have rejected a body.
C8_Witness ==
    /\ \E p \in Procs : Rejected(p) /\ IsOrderPost(p)
    /\ \E p \in Procs : Rejected(p) /\ ~IsOrderPost(p)

\* rows holds exactly the rows of table owned by u, by id, and only such rows.
ExactlyRowsOf(rows, table, u) ==
    /\ Len(rows) = Cardinality({i \in 1..Len(table) : table[i].user_uid = u})
    /\ \A i \in 1..Len(table) :
          table[i].user_uid = u => \E k \in 1..Len(rows) : rows[k].id = table[i].id
    /\ \A k \in 1..Len(rows) : rows[k].user_uid = u

\* C9: GET /orders (GET /products) by caller u returns exactly the Order
\* (Product) rows of the store whose user_uid is u, and no row of another user;
\* the response is determined by u's rows alone.
C9_ReadsReturnExactlyOwnRows ==
    /\ [](\A p \in Procs :
            (Returned(p) /\ req[p].handler \in {"GET /orders", "GET /products"})
            => \A k \in 1..Len(response[p].rows) : response[p].rows[k].user_uid = user[p])
    /\ [][\A p \in Procs :
            /\ (pc[p] = "selectOrders" /\ pc'[p] = "done" /\ response'[p].status = 200)
               => /\ ExactlyRowsOf(response'[p].rows, orders, user[p])
                  /\ response'[p].rows =
                        JoinCustomers(SelectSeq(orders, LAMBDA r : r.user_uid = user[p]))
            /\ (pc[p] = "selectProducts" /\ pc'[p] = "done" /\ response'[p].status = 200)
               => /\ ExactlyRowsOf(response'[p].rows, products, user[p])
                  /\ response'[p].rows =
                        SelectSeq(products, LAMBDA r : r.user_uid = user[p])]_vars

\* C9's case: a GET /orders has answered 200 without the order another user
\* holds in the store.
C9_Witness ==
    \E p \in Procs :
        /\ Returned(p) /\ req[p].handler = "GET /orders" /\ response[p].status = 200
        /\ \E i \in 1..Len(orders) : orders[i].user_uid # user[p]
        /\ response[p].rows = <<>>

\* Requests p and q are the same valid order payload submitted twice by one
\* user, both served without a failing store call.
SubmittedTwice(p, q) ==
    /\ p # q
    /\ Returned(p) /\ Returned(q) /\ IsOrderPost(p) /\ IsOrderPost(q)
    /\ req[p].obody = req[q].obody /\ user[p] = user[q] /\ user[p] # NoUser
    /\ OrderSchemaOk(req[p].obody)
    /\ NoCallFailed(p) /\ NoCallFailed(q)

\* C10: the same valid Order payload submitted twice by the same user, with no
\* store failure, persists two Order rows with distinct ids, each with its own
\* OrderItem rows and (when the transaction step ran) its own Transaction row.
C10_SameOrderTwiceGivesTwoOrders ==
    \A p, q \in Procs :
        SubmittedTwice(p, q)
        => /\ orderData[p].id # orderData[q].id
           /\ \A r \in {p, q} :
                 /\ response[r].status = 200
                 /\ Len(SelectEq(orders, "id", orderData[r].id)) = 1
                 /\ Len(ItemsOf(orderData[r].id)) = Len(parsedData(r).products)
                 /\ Attempted(r, "insert", "transactions")
                    => Len(TransactionsOf(orderData[r].id)) = 1

\* C10's case: a payload with products and a payment method, submitted twice.
C10_Witness ==
    \E p, q \in Procs :
        /\ SubmittedTwice(p, q)
        /\ Len(parsedData(p).products) > 0
        /\ Attempted(p, "insert", "transactions")

\* An authenticated POST /products with a body that passes validation.
IsValidProductPost(p) ==
    /\ req[p].handler = "POST /products"
    /\ user[p] # NoUser
    /\ ProductSchemaOk(req[p].pbody)

\* C11: POST /products with a validated payload issues exactly one insert.  If
\* it succeeds, exactly one Product row is added, with user_uid = the caller and
\* the validated fields, and the response is 200 with that row; if the store
\* reports an error the response is 500 with the store's message, no row is
\* added and no delete is issued.
C11_ProductPostInsertsOnce ==
    /\ [](\A p \in Procs :
            (Returned(p) /\ IsValidProductPost(p))
            => /\ Len(calls[p]) = 1
               /\ calls[p][1].op = "insert" /\ calls[p][1].table = "products"
               /\ calls[p][1].result = "ok"
                  => /\ response[p].status = 200 /\ response[p].kind = "object"
                     /\ LET row == response[p].rows[1]
                            d == ProductSchemaData(req[p].pbody) IN
                        /\ row.user_uid = user[p]
                        /\ row.name = d.name /\ row.description = d.description
                        /\ row.price = d.price /\ row.in_stock = d.in_stock
                        /\ row.category = d.category
                        /\ SelectEq(products, "id", row.id) = <<row>>
               /\ calls[p][1].result # "ok"
                  => response[p] = ErrorResponse(500, Message("insert", "products", "error")))
    /\ [][\A p \in Procs :
            (pc[p] = "insertProduct" /\ pc'[p] # "insertProduct")
            => /\ pc'[p] = "done"
               /\ IF response'[p].status = 200
                    THEN /\ products' = Append(products, response'[p].rows[1])
                         /\ UNCHANGED <<orders, order_items, transactions>>
                    ELSE UNCHANGED store]_vars

\* C11's case: a product insert has succeeded and another has failed, for a
\* body whose price came as a string.
C11_Witness ==
    /\ \E p \in Procs :
          /\ Returned(p) /\ IsValidProductPost(p) /\ response[p].status = 200
          /\ req[p].pbody.price.t = "string"
    /\ \E p \in Procs :
          Returned(p) /\ IsValidProductPost(p) /\ response[p].status = 500

\* C12: every OrderItem row persisted by the order workflow has a quantity that
\* is an integer and is not negative: no payload the order validator accepts
\* leads to an OrderItem row with a negative quantity.
C12_QuantityNonNegativeInteger ==
    \A i \in 1..Len(order_items) :
        /\ order_items[i].quantity.t = "number"
        /\ ~order_items[i].quantity.f
        /\ order_items[i].quantity.n >= 0

\* A compensating delete of request p did not succeed: the store reported an
\* error for it, or the call raised.
CompensationFailed(p) ==
    \E i \in 1..Len(calls[p]) : calls[p][i].op = "delete" /\ calls[p][i].result # "ok"

\* C13: when a compensating delete of POST /orders itself fails (the store
\* reports an error for it, or the call raises), the delete is not retried and
\* the 500 response carries the message of the insert error that triggered the
\* compensation, never the message of the delete's failure.
C13_FailedCompensationKeepsInsertError ==
    \A p \in Procs :
        (Returned(p) /\ IsOrderPost(p) /\ CompensationFailed(p))
        => /\ response[p].status = 500
           /\ \E j \in 1..Len(calls[p]) :
                 /\ calls[p][j].op = "insert" /\ calls[p][j].result = "error"
                 /\ response[p].error = Message("insert", calls[p][j].table, "error")
           /\ \A i, k \in 1..Len(calls[p]) :
                 (i < k /\ calls[p][i].op = "delete" /\ calls[p][k].op = "delete")
                 => calls[p][i].table # calls[p][k].table

\* Call i of request p is this operation on this table.
IsCall(p, i, op, table) == calls[p][i].op = op /\ calls[p][i].table = table

\* C14: within one POST /orders the store calls are issued strictly in the
\* order Order insert, OrderItem insert, Transaction insert, each only after the
\* previous call's result is known and only if it succeeded; each insert is
\* issued at most once, and a compensating delete is issued only after the
\* failure of the step it compensates.
C14_CallsInWorkflowOrder ==
    \A p \in Procs :
        IsOrderPost(p) =>
        \A i \in 1..Len(calls[p]) :
            /\ calls[p][i].op \in {"insert", "delete"}
            /\ (i = 1) <=> IsCall(p, i, "insert", "orders")
            /\ IsCall(p, i, "insert", "order_items")
               => i = 2 /\ calls[p][1].result = "ok"
            /\ IsCall(p, i, "insert", "transactions")
               => /\ i > 1
                  /\ calls[p][i - 1].op = "insert" /\ calls[p][i - 1].result = "ok"
                  /\ calls[p][i - 1].table \in {"orders", "order_items"}
            /\ IsCall(p, i, "delete", "orders")
               => /\ i > 1
                  /\ calls[p][i - 1].op = "insert" /\ calls[p][i - 1].result = "error"
                  /\ calls[p][i - 1].table \in {"order_items", "transactions"}
            /\ IsCall(p, i, "delete", "order_items")
               => /\ i > 2
                  /\ IsCall(p, i - 1, "delete", "orders")
                  /\ calls[p][i - 2] = Call("insert", "transactions", "error")
            /\ \A k \in 1..Len(calls[p]) :
                  /\ (k # i /\ calls[p][i].op = "insert" /\ calls[p][k].op = "insert")
                     => calls[p][i].table # calls[p][k].table
                  /\ (i < k /\ calls[p][i].result # "ok") => calls[p][k].op = "delete"
            /\ (i < Len(calls[p]) \/ ~Returned(p)) => calls[p][i].result # "throw"

\* C14's case: a request has issued the three inserts and, its transaction
\* insert having failed, the two compensating deletes.
C14_Witness ==
    \E p \in Procs :
        /\ Returned(p) /\ IsOrderPost(p) /\ Len(calls[p]) = 5
        /\ IsCall(p, 4, "delete", "orders") /\ IsCall(p, 5, "delete", "order_items")

\* The orders insert of request p reported an error.
OrderInsertFailed(p) == IsOrderPost(p) /\ Did(p, "insert", "orders", "error")

\* C15: when the Order insert itself reports an error, the workflow issues no
\* further store call (no OrderItem insert, no Transaction insert, no delete),
\* the store is left exactly as that call found it, and the response is 500 with
\* the store's error message.
C15_OrderInsertFailureStopsWorkflow ==
    /\ [](\A p \in Procs :
            OrderInsertFailed(p)
            => /\ Returned(p)
               /\ calls[p] = <<Call("insert", "orders", "error")>>
               /\ response[p] = ErrorResponse(500, Message("insert", "orders", "error"))
               /\ orderData[p] = NoOrder)
    /\ [][\A p \in Procs :
            (pc[p] = "insertOrder" /\ OrderInsertFailed(p)')
            => UNCHANGED store]_vars

\* C15's case: an order with products and a payment method whose orders insert
\* failed, while another request's order is in the store.
C15_Witness ==
    \E p \in Procs :
        /\ Returned(p) /\ OrderInsertFailed(p)
        /\ Len(parsedData(p).products) > 0 /\ WantsTransaction(parsedData(p))
        /\ Len(orders) > 0

\* The response of request p lists the order with this id.
Lists(p, id) == \E k \in 1..Len(response[p].rows) : response[p].rows[k].id = id

\* C16: partial visibility.  A GET /orders by the same user that runs while a
\* POST /orders is in flight returns that request's Order row as soon as it is
\* inserted, whether or not its OrderItems and Transaction are persisted yet
\* and whether or not compensation deletes it afterwards.
C16_ReadsSeeInFlightOrders ==
    [][\A p, q \in Procs :
          (/\ pc[p] = "selectOrders" /\ pc'[p] = "done" /\ response'[p].status = 200
           /\ InFlight(q) /\ user[q] = user[p])
          => /\ Lists(p, orderData[q].id)'
             /\ pc[q] \in {"insertItems", "undoOrder"} => ItemsOf(orderData[q].id) = <<>>
             /\ TransactionsOf(orderData[q].id) = <<>>]_vars

\* C16's case: a GET /orders has returned an Order row of a POST /orders that
\* was in flight, none of whose Transaction (or OrderItems) was persisted at
\* that time; the POST has since failed, deleted the row and answered 500.
C16_Witness ==
    \E p, q \in Procs :
        /\ Returned(p) /\ req[p].handler = "GET /orders" /\ response[p].status = 200
        /\ Returned(q) /\ IsOrderPost(q) /\ response[q].status = 500
        /\ user[p] = user[q]
        /\ Did(q, "delete", "orders", "ok")
        /\ Lists(p, orderData[q].id)
        /\ ~OrderPresent(orderData[q].id)

\* C17: for every validated Order payload in which created_at is provided (any
\* string the validator accepts), the Order insert carries created_at equal to
\* the caller's value; the store-assigned default is used only when created_at
\* is absent from the payload.
C17_CallerCreatedAtIsStored ==
    \A p \in Procs :
        (IsOrderPost(p) /\ Did(p, "insert", "orders", "ok"))
        => IF req[p].obody.created_at.t = "string"
             THEN orderData[p].created_at = req[p].obody.created_at.s
             ELSE orderData[p].created_at = StoreNow

\* The rows of table whose column col is not id.
RowsOfOthers(table, col, id) == SelectSeq(table, LAMBDA r : r[col] # id)

\* Request p is at one of its compensating deletes.
Compensating(p) ==
    pc[p] \in {"undoOrder", "undoOrderOfTransaction", "undoItemsOfTransaction"}

\* C18: under every interleaving of concurrent POST /orders requests, the
\* compensating deletes of one request remove only that request's Order row and
\* the OrderItem rows referencing its id; the rows of another request are
\* unchanged by them, and a request that responded 200 keeps all its rows.
C18_CompensationTouchesOwnRowsOnly ==
    /\ [](\A p \in Procs :
            (Returned(p) /\ IsOrderPost(p) /\ response[p].status = 200)
            => /\ Len(SelectEq(orders, "id", orderData[p].id)) = 1
               /\ ItemsOf(orderData[p].id) = orderItems(p)
               /\ Attempted(p, "insert", "transactions")
                  => Len(TransactionsOf(orderData[p].id)) = 1)
    /\ [][\A p \in Procs :
            (Compensating(p) /\ pc'[p] # pc[p])
            => /\ RowsOfOthers(orders', "id", orderData[p].id)
                    = RowsOfOthers(orders, "id", orderData[p].id)
               /\ RowsOfOthers(order_items', "order_id", orderData[p].id)
                    = RowsOfOthers(order_items, "order_id", orderData[p].id)
               /\ UNCHANGED <<transactions, products>>]_vars

\* C18's case: two POST /orders of one user; one answered 200 and holds its
\* order, items and transaction, the other failed and deleted its own order
\* and items.
C18_Witness ==
    \E p, q \in Procs :
        /\ Returned(p) /\ IsOrderPost(p) /\ response[p].status = 200
        /\ Len(orderItems(p)) > 0 /\ Attempted(p, "insert", "transactions")
        /\ Returned(q) /\ IsOrderPost(q) /\ user[q] = user[p]
        /\ Did(q, "delete", "orders", "ok") /\ Did(q, "delete", "order_items", "ok")
        /\ orderData[p].id < orderData[q].id

\* Every row of table with this id is owned by u.
OwnedBy(table, id, u) ==
    \A i \in 1..Len(table) : table[i].id = id => table[i].user_uid = u

\* C19: every Order row and every Product row has user_uid equal to the
\* authenticated identity of the request that inserted it, and every
\* Transaction row has user_uid equal to the user_uid of the Order it
\* references; no field of the payload sets or overrides user_uid.
C19_RowsOwnedByInsertingCaller ==
    /\ \A p \in Procs :
          /\ (IsOrderPost(p) /\ Did(p, "insert", "orders", "ok"))
             => /\ orderData[p].user_uid = user[p]
                /\ OwnedBy(orders, orderData[p].id, user[p])
          /\ (req[p].handler = "POST /products" /\ Did(p, "insert", "products", "ok"))
             => /\ response[p].rows[1].user_uid = user[p]
                /\ OwnedBy(products, response[p].rows[1].id, user[p])
    /\ \A i \in 1..Len(orders) : orders[i].user_uid \in Users
    /\ \A i \in 1..Len(products) : products[i].user_uid \in Users
    /\ \A i \in 1..Len(transactions) :
          /\ OrderPresent(transactions[i].order_id)
          /\ OwnedBy(orders, transactions[i].order_id, transactions[i].user_uid)

\* C19's case: a caller whose payloads name another user as user_uid has
\* inserted an order with its transaction, and a product.
C19_Witness ==
    \E p, q \in Procs :
        /\ Returned(p) /\ IsOrderPost(p) /\ Did(p, "insert", "transactions", "ok")
        /\ req[p].obody.user_uid.t = "string" /\ req[p].obody.user_uid.s # user[p]
        /\ Returned(q) /\ req[q].handler = "POST /products"
        /\ Did(q, "insert", "products", "ok")
        /\ req[q].pbody.user_uid.t = "string" /\ req[q].pbody.user_uid.s # user[q]

\* The number of calls with this operation that request p has issued.
Count(p, op) == Cardinality({i \in 1..Len(calls[p]) : calls[p][i].op = op})

\* C20: assuming every identity and store call eventually returns, every
\* POST /orders request eventually produces exactly one response, after at most
\* three inserts and two deletes; the response is 200 only if every insert the
\* request issued succeeded, and 500 whenever any insert reported an error.
C20_OrderPostTerminates ==
    /\ \A p \in Procs : (pc[p] = "getUser" /\ IsOrderPost(p)) ~> Returned(p)
    /\ [](\A p \in Procs :
            IsOrderPost(p)
            => /\ Count(p, "insert") <= 3 /\ Count(p, "delete") <= 2
               /\ Len(calls[p]) = Count(p, "insert") + Count(p, "delete")
               /\ Returned(p) <=> response[p] # NoResponse
               /\ Returned(p) => response[p].status \in {200, 400, 401, 500}
               /\ response[p].status = 200
                  => \A i \in 1..Len(calls[p]) : calls[p][i].result = "ok"
               /\ (Returned(p) /\ \E i \in 1..Len(calls[p]) :
                                     calls[p][i].op = "insert" /\ calls[p][i].result = "error")
                  => response[p].status = 500)
    /\ [][\A p \in Procs :
            (IsOrderPost(p) /\ response'[p] # response[p])
            => (response[p] = NoResponse \/ response'[p] = NoResponse)]_vars

\* C20's case: a request has responded 500 after three inserts and two deletes.
C20_Witness ==
    \E p \in Procs :
        /\ Returned(p) /\ IsOrderPost(p) /\ response[p].status = 500
        /\ Count(p, "insert") = 3 /\ Count(p, "delete") = 2

====
